---- MODULE Spec2Model ----
(***************************************************************************)
(* A model of scripts/extract_irs.py: the IRLB container reader and        *)
(* writer, the half-precision audio codec, the rational resampler and the  *)
(* read -> select -> resample -> write pipeline of main().                 *)
(*                                                                         *)
(* Representation.                                                         *)
(*   bytes      a sequence of 0..255; a file is its byte sequence and a    *)
(*              file position is a 0-based offset into it                  *)
(*   str        a sequence of Unicode code points                          *)
(*   float      (Python float, IEEE binary64) a record [s, e, hi, mid, lo]:*)
(*              sign, biased exponent, and the 52 fraction bits split      *)
(*              20 + 16 + 16 from the top                                  *)
(*   float32    a record [s, e, m]: sign, biased exponent, 23 fraction bits*)
(*   float16    its 16-bit pattern, 0..65535                               *)
(*   ndarray    a record [shape |-> <<rows, cols>>, data |-> C-order seq]  *)
(*   a rate handed to resample_ir is a Python number; it is kept in tenths *)
(*   (48000 is 480000, 47999.6 is 479996)                                  *)
(***************************************************************************)
EXTENDS Integers, Sequences, FiniteSets, TLC

VARIABLES pc, src, layout, all_irs, selected, i, missing, dst, dst_written,
          exit_status, stderr, readback, rs_audio, rs_src, rs_dst, rs_out

vars == <<pc, src, layout, all_irs, selected, i, missing, dst, dst_written,
          exit_status, stderr, readback, rs_audio, rs_src, rs_dst, rs_out>>

(***************************************************************************)
(* Arithmetic helpers                                                      *)
(***************************************************************************)
RECURSIVE Pow2(_)
Pow2(n) == IF n = 0 THEN 1 ELSE 2 * Pow2(n - 1)

Min(a, b) == IF a < b THEN a ELSE b

Abs(a) == IF a < 0 THEN -a ELSE a

\* Number of binary digits of n > 0.
RECURSIVE BitLen(_)
BitLen(n) == IF n = 0 THEN 0 ELSE 1 + BitLen(n \div 2)

\* math.gcd: the non-negative gcd, gcd(0, 0) = 0.
RECURSIVE gcd(_, _)
gcd(a, b) == IF Abs(b) = 0 THEN Abs(a) ELSE gcd(Abs(b), Abs(a) % Abs(b))

\* A value at or above 2^24 read from a file is kept as exactly 2^24: every
\* file of the model is far shorter, so any such offset, size or count lies
\* past the end of the file all the same.
Saturated == Pow2(24)

(***************************************************************************)
(* struct.pack / struct.unpack, little-endian                              *)
(***************************************************************************)
\* struct.pack("<H" | "<I" | "<Q", v): w bytes, least significant first.
RECURSIVE PackLE(_, _)
PackLE(v, w) == IF w = 0 THEN <<>> ELSE <<v % 256>> \o PackLE(v \div 256, w - 1)

\* struct.unpack of w little-endian bytes.
UnpackLE(b) ==
    IF \E k \in 4..Len(b) : b[k] # 0
    THEN Saturated
    ELSE b[1] + (IF Len(b) >= 2 THEN 256 * b[2] ELSE 0)
              + (IF Len(b) >= 3 THEN 65536 * b[3] ELSE 0)

\* struct.pack("<d", x): the 8 bytes of a binary64.
PackF64(x) ==
    << x.lo % 256, x.lo \div 256, x.mid % 256, x.mid \div 256,
       x.hi % 256, (x.hi \div 256) % 256,
       (x.hi \div 65536) + 16 * (x.e % 16), (x.e \div 16) + 128 * x.s >>

\* struct.unpack("<d", b).
UnpackF64(b) ==
    [ s   |-> b[8] \div 128,
      e   |-> 16 * (b[8] % 128) + (b[7] \div 16),
      hi  |-> 65536 * (b[7] % 16) + 256 * b[6] + b[5],
      mid |-> 256 * b[4] + b[3],
      lo  |-> 256 * b[2] + b[1] ]

\* The binary64 equal to k * 2^-q, for |k| < 2^21 (exact: at most 21
\* significant bits).  float(n) is FloatOf(n, 0).
FloatOf(k, q) ==
    IF k = 0 THEN [s |-> 0, e |-> 0, hi |-> 0, mid |-> 0, lo |-> 0]
    ELSE LET a == Abs(k)
             L == BitLen(a)
         IN  [ s   |-> IF k < 0 THEN 1 ELSE 0,
               e   |-> (L - 1 - q) + 1023,
               hi  |-> (a - Pow2(L - 1)) * Pow2(20 - (L - 1)),
               mid |-> 0,
               lo  |-> 0 ]

\* int(x) of a float: truncation toward zero; OverflowError / ValueError on
\* an infinity or a NaN.  A magnitude of 2^21 or more is kept as Saturated.
IntOfFloat(x) ==
    LET E   == x.e - 1023
        mag == IF E < 0 THEN 0
               ELSE IF E > 20 THEN Saturated
               ELSE (Pow2(20) + x.hi) \div Pow2(20 - E)
    IN  IF x.e = 2047 THEN [ok |-> FALSE, v |-> 0]
        ELSE [ok |-> TRUE, v |-> IF x.s = 1 THEN -mag ELSE mag]

(***************************************************************************)
(* str.encode("utf-8") / bytes.decode("utf-8"), code points below 0x800    *)
(***************************************************************************)
RECURSIVE Utf8Encode(_)
Utf8Encode(s) ==
    IF s = <<>> THEN <<>>
    ELSE (IF Head(s) < 128 THEN <<Head(s)>>
          ELSE <<192 + (Head(s) \div 64), 128 + (Head(s) % 64)>>)
         \o Utf8Encode(Tail(s))

\* [ok, v]: ok is FALSE where decode raises UnicodeDecodeError.
RECURSIVE Utf8Decode(_)
Utf8Decode(b) ==
    IF b = <<>> THEN [ok |-> TRUE, v |-> <<>>]
    ELSE IF b[1] < 128
    THEN LET r == Utf8Decode(Tail(b))
         IN  [ok |-> r.ok, v |-> <<b[1]>> \o r.v]
    ELSE IF b[1] >= 194 /\ b[1] <= 223 /\ Len(b) >= 2
            /\ b[2] >= 128 /\ b[2] <= 191
    THEN LET r == Utf8Decode(Tail(Tail(b)))
         IN  [ok |-> r.ok, v |-> <<(b[1] - 192) * 64 + (b[2] - 128)>> \o r.v]
    ELSE [ok |-> FALSE, v |-> <<>>]

(***************************************************************************)
(* Low-level helpers (file reads return [ok, v, pos]: the value and the    *)
(* position after it; ok is FALSE where struct.unpack raises on a short    *)
(* read)                                                                   *)
(***************************************************************************)
\* f.read(n) at position pos: what is left of the file, at most n bytes.
FRead(file, pos, n) == SubSeq(file, Min(pos, Len(file)) + 1, Min(pos + n, Len(file)))

\* struct.unpack of the w bytes asked for at pos, b being the bytes read.
IntOfBytes(b, pos, w) ==
    IF Len(b) < w THEN [ok |-> FALSE, v |-> 0, pos |-> pos + Len(b)]
    ELSE [ok |-> TRUE, v |-> UnpackLE(b), pos |-> pos + w]

read_u16(file, pos) == IntOfBytes(FRead(file, pos, 2), pos, 2)

read_u32(file, pos) == IntOfBytes(FRead(file, pos, 4), pos, 4)

read_u64(file, pos) == IntOfBytes(FRead(file, pos, 8), pos, 8)

F64OfBytes(b, pos) ==
    IF Len(b) < 8 THEN [ok |-> FALSE, v |-> FloatOf(0, 0), pos |-> pos + Len(b)]
    ELSE [ok |-> TRUE, v |-> UnpackF64(b), pos |-> pos + 8]

read_f64(file, pos) == F64OfBytes(FRead(file, pos, 8), pos)

\* f.read(length).decode("utf-8"), b being the bytes read at pos.
StrOfBytes(b, pos) ==
    [ok |-> Utf8Decode(b).ok, v |-> Utf8Decode(b).v, pos |-> pos + Len(b)]

\* read_str once its length n is read.
StrAfterLength(file, n) ==
    IF ~n.ok THEN [ok |-> FALSE, v |-> <<>>, pos |-> n.pos]
    ELSE StrOfBytes(FRead(file, n.pos, n.v), n.pos)

read_str(file, pos) == StrAfterLength(file, read_u16(file, pos))

write_u16(buf, v) == buf \o PackLE(v, 2)

write_u32(buf, v) == buf \o PackLE(v, 4)

write_u64(buf, v) == buf \o PackLE(v, 8)

write_f64(buf, v) == buf \o PackF64(v)

\* write_str once s is encoded.
WriteEncoded(buf, enc) == write_u16(buf, Len(enc)) \o enc

write_str(buf, s) == WriteEncoded(buf, Utf8Encode(s))

(***************************************************************************)
(* Half-precision audio codec                                              *)
(***************************************************************************)
\* Round-to-nearest-even of sig / 2^sh, sh >= 1.
RoundShift(sig, sh) ==
    LET q    == sig \div Pow2(sh)
        r    == sig % Pow2(sh)
        half == Pow2(sh - 1)
    IN  IF r > half \/ (r = half /\ q % 2 = 1) THEN q + 1 ELSE q

\* numpy's float32 -> float16 conversion (round to nearest even, overflow to
\* infinity, gradual underflow to zero), as the 16-bit pattern.
F32ToF16(x) ==
    LET sign == 32768 * x.s
        E    == x.e - 127
    IN  IF x.e = 255 THEN sign + 31744 + (IF x.m = 0 THEN 0 ELSE 512)
        ELSE IF x.e = 0 THEN sign
        ELSE IF E > 15 THEN sign + 31744
        ELSE IF E >= -14
        THEN sign + (E + 15) * 1024 + RoundShift(x.m, 13)
        ELSE IF E >= -25
        THEN sign + RoundShift(Pow2(23) + x.m, -1 - E)
        ELSE sign

\* numpy's float16 -> float32 widening (exact).
F16ToF32(h) ==
    LET s == h \div 32768
        e == (h % 32768) \div 1024
        f == h % 1024
    IN  IF e = 31 THEN [s |-> s, e |-> 255, m |-> f * 8192]
        ELSE IF e # 0 THEN [s |-> s, e |-> e - 15 + 127, m |-> f * 8192]
        ELSE IF f = 0 THEN [s |-> s, e |-> 0, m |-> 0]
        ELSE LET L == BitLen(f)
             IN  [s |-> s, e |-> (L - 1) - 24 + 127,
                  m |-> (f - Pow2(L - 1)) * Pow2(23 - (L - 1))]

\* encode_f16: float32 samples to little-endian float16 bytes.
RECURSIVE encode_f16(_)
encode_f16(samples_f32) ==
    IF samples_f32 = <<>> THEN <<>>
    ELSE PackLE(F32ToF16(Head(samples_f32)), 2) \o encode_f16(Tail(samples_f32))

\* ndarray.reshape(-1, channels): [ok, v]; ValueError when the size is not a
\* multiple of channels, or channels is 0.
Reshape(data, channels) ==
    IF channels = 0 \/ Len(data) % channels # 0
    THEN [ok |-> FALSE, v |-> [shape |-> <<0, 0>>, data |-> <<>>]]
    ELSE [ok |-> TRUE,
          v |-> [shape |-> <<Len(data) \div channels, channels>>, data |-> data]]

\* decode_f16_audio: [ok, v]; np.frombuffer raises ValueError on an odd
\* number of bytes, reshape raises as above.
decode_f16_audio(raw_bytes, channels) ==
    IF Len(raw_bytes) % 2 # 0
    THEN [ok |-> FALSE, v |-> [shape |-> <<0, 0>>, data |-> <<>>]]
    ELSE Reshape([k \in 1..(Len(raw_bytes) \div 2) |->
                     F16ToF32(raw_bytes[2 * k - 1] + 256 * raw_bytes[2 * k])],
                 channels)

(***************************************************************************)
(* IRLB reader                                                             *)
(***************************************************************************)
MAGIC_IRLB == <<73, 82, 76, 66>>

MAGIC_INDX == <<73, 78, 68, 88>>

MAGIC_IR == <<73, 82, 45, 45>>

MAGIC_META == <<77, 69, 84, 65>>

MAGIC_AUDI == <<65, 85, 68, 73>>

\* tag_count strings, one after another: [ok, v, pos].
RECURSIVE ReadTags(_, _, _, _)
TagsAfter(file, t, n, tags) ==
    IF t.ok THEN ReadTags(file, t.pos, n - 1, Append(tags, t.v))
    ELSE [ok |-> FALSE, v |-> tags, pos |-> t.pos]

ReadTags(file, pos, n, tags) ==
    IF n = 0 THEN [ok |-> TRUE, v |-> tags, pos |-> pos]
    ELSE TagsAfter(file, read_str(file, pos), n, tags)

\* tag_count = read_u16(f); [read_str(f) for _ in range(tag_count)]
TagsAfterCount(file, k) ==
    IF k.ok THEN ReadTags(file, k.pos, k.v, <<>>)
    ELSE [ok |-> FALSE, v |-> <<>>, pos |-> k.pos]

\* One field of an index entry or of a META body, by the helper that reads it.
ReadField(file, pos, kind) ==
    CASE kind = "u16"  -> read_u16(file, pos)
      [] kind = "u32"  -> read_u32(file, pos)
      [] kind = "u64"  -> read_u64(file, pos)
      [] kind = "f64"  -> read_f64(file, pos)
      [] kind = "str"  -> read_str(file, pos)
      [] kind = "tags" -> TagsAfterCount(file, read_u16(file, pos))

\* The fields of the given kinds read one after another from pos on:
\* [ok, v, pos], v the values in order; ok is FALSE when a read raises.
RECURSIVE ReadFields(_, _, _, _)
FieldsAfter(file, f, kinds, vals) ==
    IF f.ok THEN ReadFields(file, f.pos, Tail(kinds), Append(vals, f.v))
    ELSE [ok |-> FALSE, v |-> vals, pos |-> f.pos]

ReadFields(file, pos, kinds, vals) ==
    IF kinds = <<>> THEN [ok |-> TRUE, v |-> vals, pos |-> pos]
    ELSE FieldsAfter(file, ReadField(file, pos, Head(kinds)), kinds, vals)

\* offset, sample rate, channels, length, name, category.
ENTRY_FIELDS == <<"u64", "f64", "u32", "u32", "str", "str">>

\* sample rate, channels, length, name, description, category, tags.
META_FIELDS == <<"f64", "u32", "u32", "str", "str", "str", "tags">>

EntryOf(p) ==
    [offset |-> p.v[1], sample_rate |-> p.v[2], channels |-> p.v[3],
     length |-> p.v[4], name |-> p.v[5], category |-> p.v[6]]

\* The loop over the INDX body: entries while f.tell() < indx_end.
RECURSIVE ReadIndexEntries(_, _, _, _)
EntriesAfter(file, p, indx_end, entries) ==
    IF p.ok THEN ReadIndexEntries(file, p.pos, indx_end, Append(entries, EntryOf(p)))
    ELSE [ok |-> FALSE, entries |-> entries]

ReadIndexEntries(file, pos, indx_end, entries) ==
    IF pos < indx_end
    THEN EntriesAfter(file, ReadFields(file, pos, ENTRY_FIELDS, <<>>), indx_end, entries)
    ELSE [ok |-> TRUE, entries |-> entries]

\* meta = {} and audio = None before any sub-chunk is parsed.
EmptyMeta ==
    [set |-> FALSE, sample_rate |-> FloatOf(0, 0), channels |-> 0, length |-> 0,
     name |-> <<>>, description |-> <<>>, category |-> <<>>, tags |-> <<>>]

NoAudio == [set |-> FALSE, v |-> [shape |-> <<0, 0>>, data |-> <<>>]]

\* The meta dict after a META body is read.
MetaOf(p) ==
    [set |-> TRUE, sample_rate |-> p.v[1], channels |-> p.v[2], length |-> p.v[3],
     name |-> p.v[4], description |-> p.v[5], category |-> p.v[6], tags |-> p.v[7]]

\* Where the reader goes on after a sub-chunk whose body starts at body_pos:
\* f.seek(sub_end), sub_end = f.tell() + sub_size taken right after the size.
SubEnd(body_pos, sub_size) == body_pos + sub_size

\* The loop over a record chunk's sub-chunks: [ok, meta, audio].
RECURSIVE ReadSubChunks(_, _, _, _, _, _)
AfterMeta(file, p, sub_end, chunk_end, entry, meta, audio) ==
    IF p.ok THEN ReadSubChunks(file, sub_end, chunk_end, entry, MetaOf(p), audio)
    ELSE [ok |-> FALSE, meta |-> meta, audio |-> audio]

AfterAudi(file, a, sub_end, chunk_end, entry, meta, audio) ==
    IF a.ok
    THEN ReadSubChunks(file, sub_end, chunk_end, entry, meta, [set |-> TRUE, v |-> a.v])
    ELSE [ok |-> FALSE, meta |-> meta, audio |-> audio]

\* An unknown sub-chunk going on to the next iteration without the seek.
SubChunkBodyNoSeek(file, sub_magic, sz, chunk_end, entry, meta, audio) ==
    IF ~sz.ok THEN [ok |-> FALSE, meta |-> meta, audio |-> audio]
    ELSE IF sub_magic = MAGIC_META
    THEN AfterMeta(file, ReadFields(file, sz.pos, META_FIELDS, <<>>),
                   SubEnd(sz.pos, sz.v), chunk_end, entry, meta, audio)
    ELSE IF sub_magic = MAGIC_AUDI
    THEN AfterAudi(file, decode_f16_audio(FRead(file, sz.pos, sz.v), entry.channels),
                   SubEnd(sz.pos, sz.v), chunk_end, entry, meta, audio)
    ELSE ReadSubChunks(file, sz.pos, chunk_end, entry, meta, audio)

SubChunkBody(file, sub_magic, sz, chunk_end, entry, meta, audio) ==
    IF ~sz.ok THEN [ok |-> FALSE, meta |-> meta, audio |-> audio]
    ELSE IF sub_magic = MAGIC_META
    THEN AfterMeta(file, ReadFields(file, sz.pos, META_FIELDS, <<>>),
                   SubEnd(sz.pos, sz.v), chunk_end, entry, meta, audio)
    ELSE IF sub_magic = MAGIC_AUDI
    THEN AfterAudi(file, decode_f16_audio(FRead(file, sz.pos, sz.v), entry.channels),
                   SubEnd(sz.pos, sz.v), chunk_end, entry, meta, audio)
    ELSE ReadSubChunks(file, SubEnd(sz.pos, sz.v), chunk_end, entry, meta, audio)

SubChunkAt(file, sub_magic, pos, chunk_end, entry, meta, audio) ==
    IF Len(sub_magic) < 4 THEN [ok |-> TRUE, meta |-> meta, audio |-> audio]
    ELSE SubChunkBody(file, sub_magic, read_u32(file, pos + 4), chunk_end,
                      entry, meta, audio)

ReadSubChunks(file, pos, chunk_end, entry, meta, audio) ==
    IF pos < chunk_end
    THEN SubChunkAt(file, FRead(file, pos, 4), pos, chunk_end, entry, meta, audio)
    ELSE [ok |-> TRUE, meta |-> meta, audio |-> audio]

\* The record appended for an entry whose chunk gave both META and AUDI.
\* meta.get(key, fallback) is the META value: one META sets every key.
MakeIr(entry, meta, audio) ==
    [name |-> meta.name, category |-> meta.category,
     description |-> meta.description, tags |-> meta.tags,
     sample_rate |-> meta.sample_rate, channels |-> meta.channels,
     audio |-> audio.v]

\* The loop over the index entries: [ok, irs, skipped]; skipped lists the
\* warnings printed, <<kind, index entry number>>.
RECURSIVE ReadRecords(_, _, _, _, _)
RecordParsed(file, entries, k, irs, skipped, sub) ==
    IF ~sub.ok THEN [ok |-> FALSE, irs |-> irs, skipped |-> skipped]
    ELSE IF ~sub.meta.set \/ ~sub.audio.set
    THEN ReadRecords(file, entries, k + 1, irs, Append(skipped, <<"incomplete", k>>))
    \* the "Loaded" line formats int(sample_rate)
    ELSE IF ~IntOfFloat(sub.meta.sample_rate).ok
    THEN [ok |-> FALSE, irs |-> irs, skipped |-> skipped]
    ELSE ReadRecords(file, entries, k + 1,
                     Append(irs, MakeIr(entries[k], sub.meta, sub.audio)), skipped)

RecordBody(file, entries, k, irs, skipped, chunk_size) ==
    IF ~chunk_size.ok THEN [ok |-> FALSE, irs |-> irs, skipped |-> skipped]
    ELSE RecordParsed(file, entries, k, irs, skipped,
                      ReadSubChunks(file, chunk_size.pos, chunk_size.pos + chunk_size.v,
                                    entries[k], EmptyMeta, NoAudio))

\* A bad record magic ending the loop (break in place of continue).
RecordAtBreak(file, entries, k, irs, skipped, ir_magic) ==
    IF ir_magic # MAGIC_IR
    THEN [ok |-> TRUE, irs |-> irs, skipped |-> Append(skipped, <<"bad magic", k>>)]
    ELSE RecordBody(file, entries, k, irs, skipped,
                    read_u64(file, entries[k].offset + 4))

RecordAt(file, entries, k, irs, skipped, ir_magic) ==
    IF ir_magic # MAGIC_IR
    THEN ReadRecords(file, entries, k + 1, irs, Append(skipped, <<"bad magic", k>>))
    ELSE RecordBody(file, entries, k, irs, skipped,
                    read_u64(file, entries[k].offset + 4))

ReadRecords(file, entries, k, irs, skipped) ==
    IF k > Len(entries) THEN [ok |-> TRUE, irs |-> irs, skipped |-> skipped]
    ELSE RecordAt(file, entries, k, irs, skipped, FRead(file, entries[k].offset, 4))

\* The INDX chunk at index_offset: [ok, err, entries].
IndexEntries(ents) ==
    IF ents.ok THEN [ok |-> TRUE, err |-> "", entries |-> ents.entries]
    ELSE [ok |-> FALSE, err |-> "struct.error", entries |-> <<>>]

IndexBodyAt(file, indx_size) ==
    IF ~indx_size.ok THEN [ok |-> FALSE, err |-> "struct.error", entries |-> <<>>]
    ELSE IndexEntries(ReadIndexEntries(file, indx_size.pos,
                                       indx_size.pos + indx_size.v, <<>>))

ReadIndex(file, index_offset) ==
    IF FRead(file, index_offset, 4) # MAGIC_INDX
    THEN [ok |-> FALSE, err |-> "Expected INDX chunk", entries |-> <<>>]
    ELSE IndexBodyAt(file, read_u64(file, index_offset + 4))

\* read_irlb: [ok, err, irs, skipped]; ok is FALSE where it raises, and then
\* nothing is returned.
Raise(e) == [ok |-> FALSE, err |-> e, irs |-> <<>>, skipped |-> <<>>]

RecordsRead(recs) ==
    IF recs.ok THEN [ok |-> TRUE, err |-> "", irs |-> recs.irs, skipped |-> recs.skipped]
    ELSE Raise("record error")

IndexRead(file, index) ==
    IF index.ok THEN RecordsRead(ReadRecords(file, index.entries, 1, <<>>, <<>>))
    ELSE Raise(index.err)

\* ir_count = read_u32(f); index_offset = read_u64(f)
HeaderRead(file, h) ==
    IF h.ok THEN IndexRead(file, ReadIndex(file, h.v[2])) ELSE Raise("struct.error")

\* The version read and not compared with 1.
VersionReadUnchecked(file, version) ==
    IF ~version.ok THEN Raise("struct.error")
    ELSE HeaderRead(file, ReadFields(file, version.pos, <<"u32", "u64">>, <<>>))

VersionRead(file, version) ==
    IF ~version.ok THEN Raise("struct.error")
    ELSE IF version.v # 1 THEN Raise("Unsupported version")
    ELSE HeaderRead(file, ReadFields(file, version.pos, <<"u32", "u64">>, <<>>))

read_irlb(file) ==
    IF FRead(file, 0, 4) # MAGIC_IRLB THEN Raise("Bad magic")
    ELSE VersionRead(file, read_u16(file, 4))

(***************************************************************************)
(* Resampling (rates in tenths)                                            *)
(***************************************************************************)
RateScale == 2 * 5

\* int(x) of a Python number: truncation toward zero.
IntTrunc(x) == IF x >= 0 THEN x \div RateScale ELSE -((-x) \div RateScale)

\* round(x) of a Python number: to nearest, ties to even.
Round(x) ==
    LET q == x \div RateScale
        r == x % RateScale
    IN  IF 2 * r < RateScale THEN q
        ELSE IF 2 * r > RateScale THEN q + 1
        ELSE IF q % 2 = 0 THEN q ELSE q + 1

\* audio_f32[:, ch], ch 0-based.
Column(audio, ch) ==
    [r \in 1..audio.shape[1] |-> audio.data[(r - 1) * audio.shape[2] + ch + 1]]

\* np.column_stack of equally long columns.
ColumnStack(cols) ==
    LET rows == Len(cols[1])
        n    == Len(cols)
    IN  [shape |-> <<rows, n>>,
         data  |-> [k \in 1..(rows * n) |->
                       cols[((k - 1) % n) + 1][((k - 1) \div n) + 1]]]

\* scipy.signal.resample_poly(col, up, down): [ok, v].  It raises ValueError
\* unless up >= 1 and down >= 1, and returns ceil(len * up / down) samples.
\* The filter's sample values are not computed: each output sample stands as
\* the input sample it is nearest after (no property here reads them).
resample_poly(col, up, down) ==
    IF up < 1 \/ down < 1 THEN [ok |-> FALSE, v |-> <<>>]
    ELSE [ok |-> TRUE,
          v  |-> [j \in 1..((Len(col) * up + down - 1) \div down) |->
                     col[((j - 1) * down) \div up + 1]]]

\* The rates compared after rounding in place of truncation.
SameRateRounded(src_rate, dst_rate) == Round(src_rate) = Round(dst_rate)

\* Whether resample_ir returns its argument at once.
SameRate(src_rate, dst_rate) == IntTrunc(src_rate) = IntTrunc(dst_rate)

\* The loop over the channels and np.column_stack: [ok, v].
ResampleColumns(audio_f32, up, down) ==
    LET channels == audio_f32.shape[2]
    IN  IF channels = 0
           \/ \E ch \in 1..channels :
                 ~resample_poly(Column(audio_f32, ch - 1), up, down).ok
        THEN [ok |-> FALSE, v |-> audio_f32]
        ELSE [ok |-> TRUE,
              v  |-> ColumnStack([ch \in 1..channels |->
                        resample_poly(Column(audio_f32, ch - 1), up, down).v])]

\* resample_ir past the early return, g being the gcd of the truncated rates;
\* dst_rate // g raises ZeroDivisionError when g is 0.
ResampleBy(audio_f32, src_rate, dst_rate, g) ==
    IF g = 0 THEN [ok |-> FALSE, v |-> audio_f32]
    ELSE ResampleColumns(audio_f32, dst_rate \div (g * RateScale),
                         IntTrunc(src_rate) \div g)

\* resample_ir: [ok, v]; ok is FALSE where it raises.
resample_ir(audio_f32, src_rate, dst_rate) ==
    IF SameRate(src_rate, dst_rate) THEN [ok |-> TRUE, v |-> audio_f32]
    ELSE ResampleBy(audio_f32, src_rate, dst_rate,
                    gcd(IntTrunc(src_rate), IntTrunc(dst_rate)))

(***************************************************************************)
(* IRLB writer                                                             *)
(***************************************************************************)
TARGET_RATE == 48000

HEADER_SIZE == 18

\* The tags of a META sub-chunk, each length-prefixed.
RECURSIVE WriteTags(_, _)
WriteTags(buf, tags) ==
    IF tags = <<>> THEN buf ELSE WriteTags(write_str(buf, Head(tags)), Tail(tags))

\* The record's own rate written in place of the sample_rate argument.
ChunkRateOfRecord(ir_dict, sample_rate) == ir_dict.sample_rate

\* The float written as a record's sample rate: float(sample_rate) of the
\* sample_rate argument, whatever ir_dict["sample_rate"] holds.
ChunkRate(ir_dict, sample_rate) == FloatOf(sample_rate, 0)

\* magic + struct.pack("<I", len(body)) + body
SubChunk(magic, body) == magic \o PackLE(Len(body), 4) \o body

\* magic + struct.pack("<Q", len(body)) + body
Chunk(magic, body) == magic \o PackLE(Len(body), 8) \o body

\* build_ir_chunk: the bytes of one IR-- chunk, META then AUDI.
build_ir_chunk(ir_dict, sample_rate, audio_f32) ==
    LET channels   == audio_f32.shape[2]
        length     == audio_f32.shape[1]
        m1         == write_f64(<<>>, ChunkRate(ir_dict, sample_rate))
        m2         == write_u32(m1, channels)
        m3         == write_u32(m2, length)
        m4         == write_str(m3, ir_dict.name)
        m5         == write_str(m4, ir_dict.description)
        m6         == write_str(m5, ir_dict.category)
        m7         == write_u16(m6, Len(ir_dict.tags))
        meta_body  == WriteTags(m7, ir_dict.tags)
        meta_chunk == SubChunk(MAGIC_META, meta_body)
        raw_audio  == encode_f16(audio_f32.data)
        audi_chunk == SubChunk(MAGIC_AUDI, raw_audio)
    IN  Chunk(MAGIC_IR, meta_chunk \o audi_chunk)

\* The offset of each chunk, laid out one after another from the header on.
RECURSIVE ChunkOffsets(_, _)
ChunkOffsets(ir_chunks, pos) ==
    IF ir_chunks = <<>> THEN <<>>
    ELSE <<pos>> \o ChunkOffsets(Tail(ir_chunks), pos + Len(Head(ir_chunks)))

RECURSIVE Concat(_)
Concat(chunks) == IF chunks = <<>> THEN <<>> ELSE Head(chunks) \o Concat(Tail(chunks))

\* The INDX body: one entry per record.
RECURSIVE IndexBody(_, _, _)
IndexBody(buf, irs, offsets) ==
    IF irs = <<>> THEN buf
    ELSE LET audio == Head(irs).audio
             b1    == write_u64(buf, Head(offsets))
             b2    == write_f64(b1, FloatOf(TARGET_RATE, 0))
             b3    == write_u32(b2, audio.shape[2])
             b4    == write_u32(b3, audio.shape[1])
             b5    == write_str(b4, Head(irs).name)
             b6    == write_str(b5, Head(irs).category)
         IN  IndexBody(b6, Tail(irs), Tail(offsets))

\* The layout with pos starting at 0, the header left out.
OffsetsFromZero(ir_chunks) == ChunkOffsets(ir_chunks, 0)

\* The offsets write_irlb stores in the index, chunk by chunk.
Offsets(ir_chunks) == ChunkOffsets(ir_chunks, HEADER_SIZE)

\* The file, once every chunk is built: header, chunks, INDX chunk.
FileOf(selected_irs, ir_chunks) ==
    LET index_offset == HEADER_SIZE + Len(Concat(ir_chunks))
        indx_chunk   == Chunk(MAGIC_INDX,
                              IndexBody(<<>>, selected_irs, Offsets(ir_chunks)))
        header       == MAGIC_IRLB \o PackLE(1, 2) \o PackLE(Len(selected_irs), 4)
                            \o PackLE(index_offset, 8)
    IN  header \o Concat(ir_chunks) \o indx_chunk

\* write_irlb: the bytes written to path.
write_irlb(selected_irs) ==
    FileOf(selected_irs,
           [k \in 1..Len(selected_irs) |->
               build_ir_chunk(selected_irs[k], TARGET_RATE, selected_irs[k].audio)])

(***************************************************************************)
(* Source containers.  A container is described by a layout: a header kind *)
(* and, per record, the fields of its index entry and of its chunk.        *)
(*   subs      the chunk's sub-chunks in order, among "META", "AUDI" and   *)
(*             "XTRA" (a sub-chunk of a kind the reader does not know)     *)
(*   entry_ch  the channel count in the index entry                        *)
(*   meta_ch   the channel count in META                                   *)
(*   samples   the AUDI payload, as float16 patterns                       *)
(***************************************************************************)
MaxRecs == 2

SmallHall == <<83, 109, 97, 108, 108, 32, 72, 97, 108, 108>>

LargeHall == <<76, 97, 114, 103, 101, 32, 72, 97, 108, 108>>

BrickWall == <<66, 114, 105, 99, 107, 32, 87, 97, 108, 108>>

VocalPlate == <<86, 111, 99, 97, 108, 32, 80, 108, 97, 116, 101>>

LargeChurch == <<76, 97, 114, 103, 101, 32, 67, 104, 117, 114, 99, 104>>

\* "Café": not on the list, and not ASCII.
Cafe == <<67, 97, 102, 233>>

WANTED_NAMES == {BrickWall, SmallHall, LargeHall, VocalPlate, LargeChurch}

MAGIC_XTRA == <<88, 84, 82, 65>>

\* The body of an unknown sub-chunk: bytes that read as an empty AUDI
\* sub-chunk, should a reader take them for one.
XtraBody == MAGIC_AUDI \o PackLE(0, 4)

BaseRec ==
    [name |-> SmallHall, category |-> <<72, 97, 108, 108>>, description |-> <<>>,
     tags |-> <<<<97>>, <<233, 98>>>>, rate |-> FloatOf(44100, 0),
     meta_ch |-> 2, entry_ch |-> 2, samples |-> <<15360, 14336, 49152, 1>>,
     subs |-> <<"META", "AUDI">>, magic_ok |-> TRUE]

MonoRec ==
    [BaseRec EXCEPT !.name = LargeHall, !.description = <<100>>, !.tags = <<>>,
                    !.rate = FloatOf(TARGET_RATE, 0), !.meta_ch = 1,
                    !.entry_ch = 1, !.samples = <<14336, 31744>>]

RecordVariants ==
    { BaseRec,
      MonoRec,
      [MonoRec EXCEPT !.name = Cafe, !.rate = FloatOf(44100, 0)],
      [BaseRec EXCEPT !.magic_ok = FALSE],
      [BaseRec EXCEPT !.subs = <<"AUDI">>],
      [MonoRec EXCEPT !.subs = <<"META">>],
      [BaseRec EXCEPT !.subs = <<"XTRA", "META", "AUDI">>],
      [BaseRec EXCEPT !.subs = <<"META", "XTRA", "AUDI">>],
      [MonoRec EXCEPT !.subs = <<"AUDI", "META", "XTRA">>],
      [MonoRec EXCEPT !.name = BrickWall, !.meta_ch = 2, !.samples = <<15360, 14336, 1>>],
      [MonoRec EXCEPT !.name = BrickWall, !.entry_ch = 2, !.samples = <<15360, 14336, 1>>],
      [MonoRec EXCEPT !.name = VocalPlate, !.rate = FloatOf(96001, 1)],
      [MonoRec EXCEPT !.name = LargeChurch, !.rate = FloatOf(0, 0)] }

RECURSIVE SeqsUpTo(_, _)
SeqsUpTo(S, n) ==
    IF n = 0 THEN {<<>>}
    ELSE LET shorter == SeqsUpTo(S, n - 1)
         IN  shorter \cup {Append(s, x) : s \in shorter, x \in S}

HeaderFaults == {"bad magic", "bad version", "bad index magic"}

Layouts ==
    {[hdr |-> "ok", recs |-> r] : r \in SeqsUpTo(RecordVariants, MaxRecs)}
    \cup {[hdr |-> h, recs |-> r] : h \in HeaderFaults,
                                    r \in SeqsUpTo({BaseRec}, 1)}

\* One sub-chunk of a record's chunk.
CraftSub(rl, kind) ==
    IF kind = "META"
    THEN LET m1 == write_f64(<<>>, rl.rate)
             m2 == write_u32(m1, rl.meta_ch)
             m3 == write_u32(m2, Len(rl.samples) \div rl.meta_ch)
             m4 == write_str(m3, rl.name)
             m5 == write_str(m4, rl.description)
             m6 == write_str(m5, rl.category)
         IN  SubChunk(MAGIC_META, WriteTags(write_u16(m6, Len(rl.tags)), rl.tags))
    ELSE IF kind = "AUDI"
    THEN SubChunk(MAGIC_AUDI,
                  Concat([k \in 1..Len(rl.samples) |-> PackLE(rl.samples[k], 2)]))
    ELSE SubChunk(MAGIC_XTRA, XtraBody)

\* A record's chunk.
CraftChunk(rl) ==
    Chunk(IF rl.magic_ok THEN MAGIC_IR ELSE <<73, 82, 88, 88>>,
          Concat([k \in 1..Len(rl.subs) |-> CraftSub(rl, rl.subs[k])]))

RECURSIVE CraftIndexBody(_, _, _)
CraftIndexBody(buf, recs, offsets) ==
    IF recs = <<>> THEN buf
    ELSE LET rl == Head(recs)
             b1 == write_u64(buf, Head(offsets))
             b2 == write_f64(b1, rl.rate)
             b3 == write_u32(b2, rl.entry_ch)
             b4 == write_u32(b3, Len(rl.samples) \div rl.entry_ch)
             b5 == write_str(b4, rl.name)
             b6 == write_str(b5, rl.category)
         IN  CraftIndexBody(b6, Tail(recs), Tail(offsets))

\* The container, once its chunks are laid out.
CraftFile(lay, chunks) ==
    (IF lay.hdr = "bad magic" THEN <<73, 82, 76, 88>> ELSE MAGIC_IRLB)
        \o PackLE(IF lay.hdr = "bad version" THEN 2 ELSE 1, 2)
        \o PackLE(Len(lay.recs), 4)
        \o PackLE(HEADER_SIZE + Len(Concat(chunks)), 8)
        \o Concat(chunks)
        \o Chunk(IF lay.hdr = "bad index magic" THEN <<73, 78, 68, 89>> ELSE MAGIC_INDX,
                 CraftIndexBody(<<>>, lay.recs, ChunkOffsets(chunks, HEADER_SIZE)))

\* The bytes of the container a layout describes.
Craft(lay) == CraftFile(lay, [k \in 1..Len(lay.recs) |-> CraftChunk(lay.recs[k])])

(***************************************************************************)
(* main: read, select, resample, write; the __main__ handler prints any    *)
(* exception to stderr and exits with status 1.                            *)
(* all_irs holds the record objects; selected holds references to them     *)
(* (positions in all_irs), as the list comprehension keeps the same dicts. *)
(***************************************************************************)
NoRead == [ok |-> FALSE, err |-> "", irs |-> <<>>, skipped |-> <<>>]

NoCall == [ok |-> FALSE, v |-> [shape |-> <<0, 0>>, data |-> <<>>]]

Idle ==
    /\ rs_audio = NoCall.v
    /\ rs_src = 0
    /\ rs_dst = 0
    /\ rs_out = NoCall

Init ==
    /\ layout \in Layouts
    /\ src = Craft(layout)
    /\ pc = "start"
    /\ all_irs = <<>>
    /\ selected = <<>>
    /\ i = 0
    /\ missing = {}
    /\ dst = <<>>
    /\ dst_written = FALSE
    /\ exit_status = -1
    /\ stderr = <<>>
    /\ readback = NoRead
    /\ Idle

\* except Exception as e: print to stderr, sys.exit(1).
Abort(e) ==
    /\ pc' = "failed"
    /\ exit_status' = 1
    /\ stderr' = Append(stderr, e)

\* What main does with the outcome r of read_irlb.
ReadOutcome(r) ==
    IF r.ok
    THEN /\ all_irs' = r.irs
         /\ readback' = r
         /\ pc' = "select"
         /\ UNCHANGED <<exit_status, stderr>>
    ELSE /\ Abort(r.err)
         /\ UNCHANGED <<all_irs, readback>>

\* all_irs = read_irlb(SRC_PATH)
ReadStep ==
    /\ pc = "start"
    /\ ReadOutcome(read_irlb(src))
    /\ UNCHANGED <<src, layout, selected, i, missing, dst, dst_written,
                   rs_audio, rs_src, rs_dst, rs_out>>

\* The selection made on the category in place of the name.
WantedByCategory(ir) == ir.category \in WANTED_NAMES

\* Whether a record is kept by the selection.
Wanted(ir) == ir.name \in WANTED_NAMES

\* The references to the wanted records among irs[k..], in order.
RECURSIVE SelectFrom(_, _)
SelectFrom(irs, k) ==
    IF k > Len(irs) THEN <<>>
    ELSE (IF Wanted(irs[k]) THEN <<k>> ELSE <<>>) \o SelectFrom(irs, k + 1)

\* The names the warning lists: WANTED_NAMES - found_names.
MissingNames(irs, sel) == WANTED_NAMES \ {irs[sel[k]].name : k \in 1..Len(sel)}

\* selected = [...]; the warning about names not found.
SelectStep ==
    /\ pc = "select"
    /\ selected' = SelectFrom(all_irs, 1)
    /\ missing' = MissingNames(all_irs, selected')
    /\ i' = 1
    /\ pc' = "resample"
    /\ UNCHANGED <<src, layout, all_irs, dst, dst_written, exit_status, stderr,
                   readback, rs_audio, rs_src, rs_dst, rs_out>>

\* The resampled record also given the target rate.
ResampledWithRate(ir, audio) ==
    [ir EXCEPT !.audio = audio, !.sample_rate = FloatOf(48000, 0)]

\* ir["audio"] = resample_ir(...): the record after its resampling.
Resampled(ir, audio) == [ir EXCEPT !.audio = audio]

\* What the loop body does with the outcome r of resample_ir.
ResampleOutcome(ir, r) ==
    IF ~r.ok
    THEN Abort("resample_poly") /\ UNCHANGED <<all_irs, i>>
    ELSE /\ all_irs' = [all_irs EXCEPT ![selected[i]] = Resampled(ir, r.v)]
         /\ i' = i + 1
         /\ UNCHANGED <<pc, exit_status, stderr>>

\* The loop body, src_rate being int(ir["sample_rate"]).
ResampleBody(ir, src_rate) ==
    IF ~src_rate.ok
    THEN Abort("int()") /\ UNCHANGED <<all_irs, i>>
    ELSE IF src_rate.v = TARGET_RATE
    THEN /\ i' = i + 1
         /\ UNCHANGED <<all_irs, pc, exit_status, stderr>>
    ELSE ResampleOutcome(ir, resample_ir(ir.audio, src_rate.v * RateScale,
                                         TARGET_RATE * RateScale))

\* One iteration of the loop over selected.
ResampleStep ==
    /\ pc = "resample"
    /\ i <= Len(selected)
    /\ ResampleBody(all_irs[selected[i]], IntOfFloat(all_irs[selected[i]].sample_rate))
    /\ UNCHANGED <<src, layout, selected, missing, dst, dst_written, readback,
                   rs_audio, rs_src, rs_dst, rs_out>>

\* The records main hands to write_irlb.
SelectedIrs == [k \in 1..Len(selected) |-> all_irs[selected[k]]]

\* write_irlb(DST_PATH, selected); main returns and the process exits 0.
WriteStep ==
    /\ pc = "resample"
    /\ i > Len(selected)
    /\ dst' = write_irlb(SelectedIrs)
    /\ dst_written' = TRUE
    /\ pc' = "done"
    /\ exit_status' = 0
    /\ UNCHANGED <<src, layout, all_irs, selected, i, missing, stderr, readback,
                   rs_audio, rs_src, rs_dst, rs_out>>

Next == ReadStep \/ SelectStep \/ ResampleStep \/ WriteStep

Spec == Init /\ [][Next]_vars

(***************************************************************************)
(* write_irlb followed by read_irlb, on record sets built in memory: every *)
(* record of a set carries the same sample rate.                           *)
(***************************************************************************)
MaxAuthored == 2

\* float32 samples: 1.0, 1/3, 0.5, 70000.0 (beyond the float16 range) and
\* -1e-8 (below the smallest float16 subnormal).
One32 == [s |-> 0, e |-> 127, m |-> 0]

Third32 == [s |-> 0, e |-> 125, m |-> 2796203]

Half32 == [s |-> 0, e |-> 126, m |-> 0]

Big32 == [s |-> 0, e |-> 143, m |-> 571392]

Tiny32 == [s |-> 1, e |-> 100, m |-> 2870391]

AuthoredStereo ==
    [name |-> SmallHall, category |-> <<72, 97, 108, 108>>, description |-> <<>>,
     tags |-> <<<<97>>, <<233, 98>>>>, sample_rate |-> FloatOf(TARGET_RATE, 0),
     channels |-> 2,
     audio |-> [shape |-> <<2, 2>>, data |-> <<One32, Third32, Half32, Tiny32>>]]

AuthoredMono ==
    [AuthoredStereo EXCEPT !.name = LargeHall, !.description = <<100, 233>>,
                           !.tags = <<>>, !.channels = 1,
                           !.audio = [shape |-> <<2, 1>>, data |-> <<Half32, Big32>>]]

AuthoredRecords ==
    { AuthoredStereo,
      AuthoredMono,
      [AuthoredMono EXCEPT !.name = Cafe, !.category = <<>>,
                           !.audio = [shape |-> <<0, 1>>, data |-> <<>>]],
      [AuthoredStereo EXCEPT !.name = BrickWall, !.tags = <<<<>>>>,
                             !.audio = [shape |-> <<1, 2>>, data |-> <<Tiny32, One32>>]] }

AuthoredRates == {44100, TARGET_RATE, 96000}

\* The record set recs, every record at the given rate.
AtRate(recs, rate) ==
    [k \in 1..Len(recs) |-> [recs[k] EXCEPT !.sample_rate = FloatOf(rate, 0)]]

InitCodec ==
    /\ \E recs \in SeqsUpTo(AuthoredRecords, MaxAuthored), rate \in AuthoredRates :
           all_irs = AtRate(recs, rate)
    /\ pc = "authored"
    /\ layout = [hdr |-> "ok", recs |-> <<>>]
    /\ src = <<>>
    /\ selected = <<>>
    /\ i = 0
    /\ missing = {}
    /\ dst = <<>>
    /\ dst_written = FALSE
    /\ exit_status = -1
    /\ stderr = <<>>
    /\ readback = NoRead
    /\ Idle

\* write_irlb(path, R)
CodecWrite ==
    /\ pc = "authored"
    /\ dst' = write_irlb(all_irs)
    /\ dst_written' = TRUE
    /\ pc' = "written"
    /\ UNCHANGED <<src, layout, all_irs, selected, i, missing, exit_status, stderr,
                   readback, rs_audio, rs_src, rs_dst, rs_out>>

\* read_irlb(path) of the file just written
CodecRead ==
    /\ pc = "written"
    /\ readback' = read_irlb(dst)
    /\ pc' = "read"
    /\ UNCHANGED <<src, layout, all_irs, selected, i, missing, dst, dst_written,
                   exit_status, stderr, rs_audio, rs_src, rs_dst, rs_out>>

NextCodec == CodecWrite \/ CodecRead

SpecCodec == InitCodec /\ [][NextCodec]_vars

(***************************************************************************)
(* resample_ir called on its own, rates in tenths: -48000, -0.5, 0, 0.4,   *)
(* 0.6, 44100, 47999.6, 48000, 48000.4.                                    *)
(***************************************************************************)
ResampleRates == {-480000, -5, 0, 4, 6, 441000, 479996, 480000, 480004}

ResampleAudios == {AuthoredStereo.audio, AuthoredMono.audio}

InitResample ==
    /\ rs_audio \in ResampleAudios
    /\ rs_src \in ResampleRates
    /\ rs_dst \in ResampleRates
    /\ rs_out = NoCall
    /\ pc = "call"
    /\ layout = [hdr |-> "ok", recs |-> <<>>]
    /\ src = <<>>
    /\ all_irs = <<>>
    /\ selected = <<>>
    /\ i = 0
    /\ missing = {}
    /\ dst = <<>>
    /\ dst_written = FALSE
    /\ exit_status = -1
    /\ stderr = <<>>
    /\ readback = NoRead

\* resample_ir(audio_f32, src_rate, dst_rate)
ResampleCall ==
    /\ pc = "call"
    /\ rs_out' = resample_ir(rs_audio, rs_src, rs_dst)
    /\ pc' = "returned"
    /\ UNCHANGED <<src, layout, all_irs, selected, i, missing, dst, dst_written,
                   exit_status, stderr, readback, rs_audio, rs_src, rs_dst>>

NextResample == ResampleCall

SpecResample == InitResample /\ [][NextResample]_vars

(***************************************************************************)
(* Properties                                                              *)
(***************************************************************************)
Range(s) == {s[k] : k \in 1..Len(s)}

\* The index of a written file: its INDX chunk at the header's index_offset.
WrittenIndex(file) == ReadIndex(file, read_u64(file, 10).v)

\* The total length of the chunks written for irs[1..n].
RECURSIVE ChunkBytes(_, _)
ChunkBytes(irs, n) ==
    IF n = 0 THEN 0
    ELSE ChunkBytes(irs, n - 1) + Len(build_ir_chunk(irs[n], TARGET_RATE, irs[n].audio))

OffsetsSound(file, index, irs) ==
    /\ index.ok
    /\ Len(index.entries) = Len(irs)
    /\ \A k \in 1..Len(irs) :
          /\ index.entries[k].offset = 18 + ChunkBytes(irs, k - 1)
          /\ index.entries[k].offset + 4 <= Len(file)
          /\ FRead(file, index.entries[k].offset, 4) = <<73, 82, 45, 45>>

\* C1: once write_irlb has written a file, the index of that file holds one
\* offset per record, offset k is 18 plus the length of the chunks before it,
\* and the 4 bytes of the file at each offset are "IR--".
OffsetIntegrity == dst_written => OffsetsSound(dst, WrittenIndex(dst), all_irs)

OffsetIntegrityWitness == pc = "written" /\ dst_written /\ Len(all_irs) >= 2

SameText(r, w) ==
    /\ r.name = w.name
    /\ r.category = w.category
    /\ r.description = w.description
    /\ r.tags = w.tags
    /\ r.channels = w.channels

\* C2 as amended: reading back a written record set gives as many records in
\* the same order, each with the name, category, description, tags and
\* channels of its original, and with the sample rate 48000.0.
RoundTripAtTargetRate ==
    pc = "read" =>
        /\ readback.ok
        /\ Len(readback.irs) = Len(all_irs)
        /\ \A k \in 1..Len(all_irs) :
              /\ SameText(readback.irs[k], all_irs[k])
              /\ readback.irs[k].sample_rate = FloatOf(48000, 0)

RoundTripWitness ==
    /\ pc = "read"
    /\ readback.ok
    /\ Len(readback.irs) >= 2
    /\ all_irs[1].sample_rate = FloatOf(44100, 0)
    /\ all_irs[1].tags # <<>>

\* C2 as stated: the records read back also carry the sample rate of their
\* originals.
RoundTripExact ==
    pc = "read" =>
        /\ readback.ok
        /\ Len(readback.irs) = Len(all_irs)
        /\ \A k \in 1..Len(all_irs) :
              /\ SameText(readback.irs[k], all_irs[k])
              /\ readback.irs[k].sample_rate = all_irs[k].sample_rate

\* A record of a layout whose chunk has the record magic and both sub-chunks.
Complete(rl) == rl.magic_ok /\ {"META", "AUDI"} \subseteq Range(rl.subs)

\* A layout whose header and index are valid and whose entries agree with
\* their chunks on the channel count.
Consistent(lay) ==
    /\ lay.hdr = "ok"
    /\ \A k \in 1..Len(lay.recs) : lay.recs[k].entry_ch = lay.recs[k].meta_ch

\* The record a complete chunk of a consistent layout stands for.
ExpectedIr(rl) ==
    [name |-> rl.name, category |-> rl.category, description |-> rl.description,
     tags |-> rl.tags, sample_rate |-> rl.rate, channels |-> rl.meta_ch,
     audio |-> [shape |-> <<Len(rl.samples) \div rl.meta_ch, rl.meta_ch>>,
                data  |-> [k \in 1..Len(rl.samples) |-> F16ToF32(rl.samples[k])]]]

RECURSIVE ExpectedIrs(_)
ExpectedIrs(recs) ==
    IF recs = <<>> THEN <<>>
    ELSE (IF Complete(Head(recs)) THEN <<ExpectedIr(Head(recs))>> ELSE <<>>)
             \o ExpectedIrs(Tail(recs))

RECURSIVE ExpectedSkips(_, _)
ExpectedSkips(recs, k) ==
    IF k > Len(recs) THEN <<>>
    ELSE (IF ~recs[k].magic_ok THEN << <<"bad magic", k>> >>
          ELSE IF ~Complete(recs[k]) THEN << <<"incomplete", k>> >>
          ELSE <<>>) \o ExpectedSkips(recs, k + 1)

\* C3: on a container with a valid header and index, the read succeeds, the
\* records with a bad chunk magic or without META or AUDI are skipped with a
\* warning each, and the records of all other entries are returned in index
\* order.
RecordResilience ==
    (pc # "start" /\ Consistent(layout)) =>
        /\ readback.ok
        /\ readback.irs = ExpectedIrs(layout.recs)
        /\ readback.skipped = ExpectedSkips(layout.recs, 1)

RecordResilienceWitness ==
    /\ pc = "select"
    /\ Consistent(layout)
    /\ Len(layout.recs) >= 2
    /\ Len(readback.skipped) = 1
    /\ Len(readback.irs) = Len(layout.recs) - 1

HasXtra(lay) == \E k \in 1..Len(lay.recs) : "XTRA" \in Range(lay.recs[k].subs)

\* The layout with every unknown sub-chunk removed.
NotXtra(kind) == kind # "XTRA"

WithoutXtra(lay) ==
    [lay EXCEPT !.recs = [k \in 1..Len(lay.recs) |->
        [lay.recs[k] EXCEPT !.subs = SelectSeq(lay.recs[k].subs, NotXtra)]]]

SameRead(a, b) == a.ok = b.ok /\ a.irs = b.irs /\ a.skipped = b.skipped

\* C4: a container with unknown sub-chunks, wherever they stand in a chunk,
\* reads as the same container without them: the same records, with the same
\* META fields and the same audio.
UnknownSubChunkSkipped ==
    (pc # "start" /\ HasXtra(layout)) =>
        /\ SameRead(readback, read_irlb(Craft(WithoutXtra(layout))))
        /\ Consistent(layout) => readback.irs = ExpectedIrs(layout.recs)

UnknownSubChunkWitness ==
    /\ pc = "select"
    /\ \E k \in 1..Len(layout.recs) :
          /\ layout.recs[k].subs = <<"AUDI", "META", "XTRA">>
          /\ Len(layout.recs) = Len(readback.irs)
    /\ \E k \in 1..Len(layout.recs) :
          layout.recs[k].subs = <<"META", "XTRA", "AUDI">>

FaultMessage(h) ==
    CASE h = "bad magic"       -> "Bad magic"
      [] h = "bad version"     -> "Unsupported version"
      [] h = "bad index magic" -> "Expected INDX chunk"

\* C5: with a wrong file magic, a version other than 1 or a wrong magic at
\* index_offset, the read raises and returns nothing, the error is printed,
\* the process exits with status 1 and no output is written.
FatalFormatError ==
    (layout.hdr \in HeaderFaults /\ pc # "start") =>
        /\ pc = "failed"
        /\ all_irs = <<>>
        /\ stderr = <<FaultMessage(layout.hdr)>>
        /\ exit_status = 1
        /\ ~dst_written
        /\ dst = <<>>

FatalFormatErrorWitness ==
    /\ pc = "failed"
    /\ layout.hdr = "bad index magic"
    /\ layout.recs # <<>>
    /\ exit_status = 1

InAllowList(ir) ==
    ir.name \in {<<66, 114, 105, 99, 107, 32, 87, 97, 108, 108>>,
                 <<83, 109, 97, 108, 108, 32, 72, 97, 108, 108>>,
                 <<76, 97, 114, 103, 101, 32, 72, 97, 108, 108>>,
                 <<86, 111, 99, 97, 108, 32, 80, 108, 97, 116, 101>>,
                 <<76, 97, 114, 103, 101, 32, 67, 104, 117, 114, 99, 104>>}

Names(irs) == [k \in 1..Len(irs) |-> irs[k].name]

\* The names of the records of a written file, in file order.
WrittenNames(r) == IF r.ok THEN Names(r.irs) ELSE <<"unreadable">>

\* C6: the selected records are the source records with a listed name, in
\* source order; the names reported missing are the listed names no source
\* record bears; a failure after a successful read comes from the resample
\* loop only; and the file written holds the selected records in that order.
SelectionCorrect ==
    /\ (readback.ok /\ pc \in {"resample", "done", "failed"}) =>
          /\ i >= 1
          /\ [k \in 1..Len(selected) |-> readback.irs[selected[k]]]
                 = SelectSeq(readback.irs, InAllowList)
          /\ missing = {n \in WANTED_NAMES :
                           \A k \in 1..Len(readback.irs) : readback.irs[k].name # n}
          /\ pc = "failed" => i <= Len(selected)
    /\ pc = "done" =>
          /\ exit_status = 0
          /\ WrittenNames(read_irlb(dst)) = Names(SelectSeq(readback.irs, InAllowList))

SelectionWitness ==
    /\ pc = "done"
    /\ Len(readback.irs) = 2
    /\ selected = <<2>>
    /\ missing # {}
    /\ exit_status = 0

\* C7 as amended: when the two rates have the same integer part (truncation
\* toward zero), resample_ir returns its input unchanged.
ResampleIdentityTruncated ==
    (pc = "returned" /\ IntTrunc(rs_src) = IntTrunc(rs_dst)) =>
        rs_out.ok /\ rs_out.v = rs_audio

ResampleIdentityWitness ==
    /\ pc = "returned"
    /\ rs_src = 480004
    /\ rs_dst = 480000
    /\ rs_out.ok
    /\ rs_out.v = rs_audio

\* C7 as stated: when the two rates round to the same integer, resample_ir
\* returns its input unchanged.
ResampleIdentityRounded ==
    (pc = "returned" /\ Round(rs_src) = Round(rs_dst)) =>
        rs_out.ok /\ rs_out.v = rs_audio

\* C8: a call of resample_ir with a zero or negative rate raises.
ResampleFailFast ==
    (pc = "returned" /\ (rs_src <= 0 \/ rs_dst <= 0)) => ~rs_out.ok

\* C9: every record read has an audio buffer as wide as its channels field,
\* holding a multiple of that many samples.
RecordShape ==
    (pc # "start" /\ readback.ok) =>
        \A k \in 1..Len(readback.irs) :
            /\ readback.irs[k].audio.shape[2] = readback.irs[k].channels
            /\ Len(readback.irs[k].audio.data) % readback.irs[k].channels = 0

SansAudio(ir) == [ir EXCEPT !.audio = [shape |-> <<0, 0>>, data |-> <<>>]]

\* The selected records the resample loop has already gone through.
Processed == {selected[k] : k \in 1..Min(i - 1, Len(selected))}

\* C10 as amended: the resample loop leaves every record in place with every
\* field but audio as it was read (sample_rate included), and replaces the
\* audio of no record other than the selected ones it has gone through
\* whose integer sample rate is not the target rate.
ResampleReplacesAudioOnly ==
    (readback.ok /\ pc \in {"select", "resample", "done", "failed"}) =>
        /\ Len(all_irs) = Len(readback.irs)
        /\ \A k \in 1..Len(all_irs) :
              /\ SansAudio(all_irs[k]) = SansAudio(readback.irs[k])
              /\ all_irs[k].audio # readback.irs[k].audio =>
                    /\ k \in Processed
                    /\ IntOfFloat(all_irs[k].sample_rate).v # 48000

ResampleReplacesWitness ==
    /\ pc = "done"
    /\ \E k \in 1..Len(all_irs) :
          /\ all_irs[k].audio # readback.irs[k].audio
          /\ all_irs[k].sample_rate = FloatOf(44100, 0)

\* C10 as stated: a record the loop has resampled has the target rate as
\* its sample_rate.
ResampledAtTargetRate ==
    (readback.ok /\ pc \in {"resample", "done", "failed"}) =>
        \A k \in 1..Len(all_irs) :
            all_irs[k].audio # readback.irs[k].audio =>
                all_irs[k].sample_rate = FloatOf(48000, 0)

====
